---- MODULE Spec2Model ----
(***************************************************************************)
(* OnePic (Emahhh/onepic): the adaptive export pipeline, the size          *)
(* estimator, the asset lifecycle and the debounced sliders of             *)
(* src/src/App.tsx, and the layout packers of src/src/layouts.ts.          *)
(*                                                                         *)
(* Lengths and pixel counts are the program's own numbers (CSS pixels).    *)
(* A resolution multiplier is held as an integer number of two-hundredths  *)
(* (ScaleUnit = 200 is the multiplier 1): getSafeExportScale returns        *)
(* multiples of 0.05 = 10/200, and the ladder's 0.7 and 0.5 multiples of    *)
(* those are 7/200 and 5/200 steps, so every multiplier the export code     *)
(* can produce is exact in this unit.                                       *)
(***************************************************************************)
EXTENDS Integers, Naturals, Sequences, FiniteSets, TLC

(***************************************************************************)
(* Program constants                                                        *)
(***************************************************************************)
EXPORT_WIDTH == 3600
FRAME_PADDING == 48
PREVIEW_MAX_WIDTH == 600
MAX_CANVAS_PIXELS_IOS == 12000000
MAX_CANVAS_PIXELS_MOBILE == 24000000
MAX_CANVAS_PIXELS_DESKTOP == 100000000
MAX_IMAGES_DESKTOP == 100
MAX_IMAGES_MOBILE == 50
BATCH_SIZE_DESKTOP == 8
BATCH_SIZE_MOBILE == 3
DEFAULT_ROW_HEIGHT == 340
DEFAULT_GUTTER == 32

\* const compressionPresets: the keys; the qualities are in hundredths
CompressionPreset == {"crisp", "balanced", "compact"}
compressionQuality(preset) ==
  CASE preset = "crisp" -> 95
    [] preset = "balanced" -> 85
    [] preset = "compact" -> 72

\* isIOS() / isMobile() classify the user agent into one of three classes
PlatformClass == {"ios", "mobile", "desktop"}

\* the multiplier 1, in two-hundredths
ScaleUnit == 20 * 10

(***************************************************************************)
(* Bounds of the model                                                      *)
(***************************************************************************)
\* how many times handleDownload is invoked in one behaviour
MaxExports == 2
\* how many times the size-estimator effect runs after the first run
MaxReschedules == 2
\* how many times processFiles is invoked in one behaviour
MaxUploads == 2
\* how many times resetState is invoked in one behaviour
MaxResets == 1
\* how many photos a stand-alone layout computation is given
MaxPhotos == 3

\* the platform class and the frame height (fullStageHeight) of the loaded
\* photo set, chosen so that the ladder has 4, 4, 3 and 1 candidates
Frames == {<<"desktop", 2000>>, <<"mobile", 60600>>, <<"ios", 60600>>,
           <<"ios", 150000>>}

(***************************************************************************)
(* Exact integer arithmetic                                                 *)
(***************************************************************************)
\* <<q, r>> with a * b = q * c + r and 0 <= r < c, computed without ever
\* forming the product a * b (which may exceed 32 bits)
RECURSIVE MulDivMod(_, _, _)
MulDivMod(a, b, c) ==
  IF b = 0 THEN <<0, 0>>
  ELSE LET h == MulDivMod(a, b \div 2, c)
           add == IF b % 2 = 1 THEN a ELSE 0
           r2 == 2 * h[2] + (add % c)
       IN <<2 * h[1] + (add \div c) + (r2 \div c), r2 % c>>

\* Math.floor(Math.sqrt(x)) for an integer x >= 0
RECURSIVE FloorSqrtFrom(_, _)
FloorSqrtFrom(x, n) == IF (n + 1) * (n + 1) > x THEN n ELSE FloorSqrtFrom(x, n + 1)

FloorSqrt(x) == FloorSqrtFrom(x, 0)

\* Math.round(length * scale) for a scale in two-hundredths (half rounds up)
RoundScaled(length, scale) == (length * scale + (ScaleUnit \div 2)) \div ScaleUnit

(***************************************************************************)
(* PixelBudget                                                              *)
(***************************************************************************)
getMaxCanvasPixels(p) ==
  IF p = "ios" THEN MAX_CANVAS_PIXELS_IOS
  ELSE IF p = "mobile" THEN MAX_CANVAS_PIXELS_MOBILE
  ELSE MAX_CANVAS_PIXELS_DESKTOP

\* a plausible slip: Math.ceil instead of Math.floor
CeilTwentieths(maxPixels, totalPixels) ==
  LET qr == MulDivMod(maxPixels, 400, totalPixels)
      n == FloorSqrt(qr[1])
  IN IF n * n = qr[1] /\ qr[2] = 0 THEN n ELSE n + 1

\* Math.floor(Math.sqrt(maxPixels / totalPixels) * 20): the number of
\* twentieths.  floor(20 * sqrt(q)) = floor(sqrt(floor(400 * q))).
FloorTwentieths(maxPixels, totalPixels) ==
  FloorSqrt(MulDivMod(maxPixels, 400, totalPixels)[1])

getSafeExportScale(p, width, height) ==
  LET maxPixels == getMaxCanvasPixels(p)
      totalPixels == width * height
  IN IF totalPixels <= maxPixels
       THEN ScaleUnit
       ELSE 10 * FloorTwentieths(maxPixels, totalPixels)

(***************************************************************************)
(* The scale ladder of attemptExport                                        *)
(***************************************************************************)
\* [safeScale, safeScale * 0.7, safeScale * 0.5, 0.25]; safeScale is a
\* multiple of 10 two-hundredths, so the products are whole two-hundredths
LadderCandidates(safeScale) ==
  <<safeScale, (safeScale * 7) \div 10, safeScale \div 2, 50>>

\* a plausible slip: s >= 0.1
KeepCandidateInclusive(s) == s >= 20

\* .filter(s => s > 0.1)
KeepCandidate(s) == s > 20

BuildLadder(safeScale) == SelectSeq(LadderCandidates(safeScale), KeepCandidate)

(***************************************************************************)
(* State                                                                    *)
(***************************************************************************)
VARIABLES
  platform,          \* the platform class the user agent falls into
  fullStageHeight,   \* frame height of the loaded photo set (collage + padding)
  stage,             \* the Konva stage: [scale, width, height]
  exports,           \* activation record of each handleDownload invocation
  started,           \* number of handleDownload invocations so far
  settled,           \* the export that ran to its end in the last step, if any
  isProcessing,      \* useState isProcessing
  snackbar,          \* useState snackbar (last message raised)
  compressionPreset, \* useState compressionPreset
  estimatedSize,     \* useState estimatedSize
  isEstimating,      \* useState isEstimating
  effectRuns,        \* number of runs of the size-estimator effect (its token)
  pendingTimers,     \* window.setTimeout entries of the estimator not yet fired
  cancelled,         \* effect runs whose closure variable `cancelled` is true
  lastWriter,        \* effect run that last wrote estimatedSize / isEstimating
  lastEncode,        \* outcome of the latest toDataURL call of a timer callback
  budgetArgs,        \* arguments of a stand-alone getSafeExportScale call
  budgetResult,      \* its result and the ladder built from it
  assets,            \* useState assets (and assetsRef.current): decoded handles
  released,          \* per decoded handle, how often releaseImageSource was called
  decodedCount,      \* number of handles readFileAsAsset has decoded so far
  uploads,           \* activation record of each processFiles invocation
  uploadsStarted,    \* number of processFiles invocations so far
  resets,            \* number of resetState invocations so far
  mounted,           \* whether the App component is mounted
  layoutArgs,        \* arguments of a stand-alone layout computation
  layoutResult,      \* the LayoutResult it returned
  sliderValue,       \* useState columns and rowHeight: what the sliders show
  debouncedValue,    \* useState debouncedColumns and debouncedRowHeight
  sliderTimers,      \* setTimeout entries of the debounce helper, oldest first
  sliderMoves        \* number of slider changes so far

vars == <<platform, fullStageHeight, stage, exports, started, settled, isProcessing,
          snackbar, compressionPreset, estimatedSize, isEstimating, effectRuns,
          pendingTimers, cancelled, lastWriter, lastEncode, budgetArgs,
          budgetResult, assets, released, decodedCount, uploads, uploadsStarted,
          resets, mounted, layoutArgs, layoutResult, sliderValue,
          debouncedValue, sliderTimers, sliderMoves>>

exportVars == <<stage, exports, started, settled, isProcessing, snackbar>>
estimatorVars == <<compressionPreset, estimatedSize, isEstimating, effectRuns,
                   pendingTimers, cancelled, lastWriter, lastEncode>>
frameVars == <<platform, fullStageHeight>>
budgetVars == <<budgetArgs, budgetResult>>
assetVars == <<assets, released, decodedCount, uploads, uploadsStarted, resets,
               mounted>>
sliderVars == <<sliderValue, debouncedValue, sliderTimers, sliderMoves>>
layoutVars == <<layoutArgs, layoutResult, sliderVars>>

ExportIds == 1..MaxExports
UploadIds == 1..MaxUploads

fullExportWidth == EXPORT_WIDTH + FRAME_PADDING * 2

Max(a, b) == IF a >= b THEN a ELSE b

\* the stage as React renders it for the preview: width previewCanvasWidth,
\* height previewCanvasHeight, scale liveScale = previewCanvasWidth /
\* fullExportWidth (kept as the fraction <<numerator, denominator>>; the
\* preview height is kept to whole pixels)
PreviewStage(h) ==
  [scale |-> <<PREVIEW_MAX_WIDTH, fullExportWidth>>,
   width |-> PREVIEW_MAX_WIDTH,
   height |-> Max((h * PREVIEW_MAX_WIDTH) \div fullExportWidth, 1)]

\* stage.scale({x: scale, y: scale}); stage.size({width, height})
ExportStage(scale, fullWidth, fullHeight) ==
  [scale |-> <<scale, ScaleUnit>>,
   width |-> RoundScaled(fullWidth, scale),
   height |-> RoundScaled(fullHeight, scale)]

NoError == [attempt |-> 0, isError |-> FALSE]
NoResult == [kind |-> "none"]
NoRaster == [scale |-> <<0, 1>>, width |-> 0, height |-> 0]

\* an export whose handleDownload has returned keeps nothing
DoneExport ==
  [pc |-> "done", safeScale |-> 0, scales |-> <<>>, idx |-> 0,
   lastError |-> NoError, previousScale |-> <<0, 1>>,
   previousSize |-> [width |-> 0, height |-> 0],
   result |-> NoResult, began |-> NoRaster, rasterized |-> NoRaster,
   log |-> <<>>]

NotSettled == [id |-> 0]

\* the step was a handleDownload call that returned at its guard
Refused == [id |-> 0, refused |-> TRUE]

IdleExport ==
  [pc |-> "idle", safeScale |-> 0, scales |-> <<>>, idx |-> 0,
   lastError |-> NoError, previousScale |-> <<0, 1>>,
   previousSize |-> [width |-> 0, height |-> 0],
   result |-> NoResult, began |-> NoRaster, rasterized |-> NoRaster,
   log |-> <<>>]

\* a processFiles invocation that has not started; `notified` tells whether
\* the snackbar it left at its first await says that files were cut off
IdleUpload ==
  [pc |-> "idle", incoming |-> <<>>, selected |-> <<>>, i |-> 0,
   loaded |-> <<>>, failed |-> FALSE, notified |-> FALSE]

\* no upload, reset or unmount has happened and no layout was computed
\* stand-alone
NothingElseStarted ==
  /\ uploads = [u \in UploadIds |-> IdleUpload]
  /\ uploadsStarted = 0
  /\ resets = 0
  /\ mounted = TRUE
  /\ layoutArgs = <<>>
  /\ layoutResult = <<>>

\* useState(4) and useState(DEFAULT_ROW_HEIGHT), for the sliders and for
\* their debounced copies
SliderDefaults == [columns |-> 4, rowHeight |-> DEFAULT_ROW_HEIGHT]

\* the sliders have not been touched and the timers the two debounce
\* effects set at mount have fired
SlidersSettled ==
  /\ sliderValue = SliderDefaults
  /\ debouncedValue = SliderDefaults
  /\ sliderTimers = <<>>
  /\ sliderMoves = 0

(***************************************************************************)
(* Initial state: a photo set has been loaded and laid out (assets is       *)
(* non-empty, the stage is mounted at its preview size), the estimator      *)
(* effect has run for it and its timer is pending, no export is running.    *)
(***************************************************************************)
Timer(tok, preset) == [tok |-> tok, quality |-> compressionQuality(preset)]

NullSize == [kind |-> "null"]

\* no timer callback has called toDataURL yet
NoEncode == [outcome |-> "none"]

Init ==
  /\ \E f \in Frames : platform = f[1] /\ fullStageHeight = f[2]
  /\ stage = PreviewStage(fullStageHeight)
  /\ exports = [e \in ExportIds |-> IdleExport]
  /\ started = 0
  /\ settled = NotSettled
  /\ isProcessing = FALSE
  /\ snackbar = "none"
  /\ compressionPreset = "balanced"
  /\ estimatedSize = NullSize
  /\ isEstimating = TRUE
  /\ effectRuns = 1
  /\ pendingTimers = {Timer(1, "balanced")}
  /\ cancelled = {}
  /\ lastWriter = 1
  /\ lastEncode = NoEncode
  /\ budgetArgs = <<>>
  /\ budgetResult = <<>>
  /\ assets = <<1>>
  /\ released = <<0>>
  /\ decodedCount = 1
  /\ NothingElseStarted
  /\ SlidersSettled

(***************************************************************************)
(* handleDownload and attemptExport                                         *)
(***************************************************************************)
\* the value a failed attempt throws: an Error raised by stage.toCanvas() or
\* the Error canvasToBlobAsync rejects with, identified by its attempt
Thrown(k) == [attempt |-> k, isError |-> TRUE]

\* new Error('Export failed at all resolutions')
GenericError == [attempt |-> -1, isError |-> TRUE]

\* new Error('Export failed')
WrappedError == [attempt |-> -2, isError |-> TRUE]

\* a plausible slip: lastError = lastError || error
KeepFirstError(prev, error) == IF prev = NoError THEN error ELSE prev

\* a plausible slip: the catch block does not keep the error
DropError(prev, error) == prev

\* lastError = error instanceof Error ? error : new Error('Export failed')
CatchError(prev, error) == IF error.isError THEN error ELSE WrappedError

\* a plausible slip: the for loop advances past a candidate
SkipCandidate(k) == k + 2

\* for (const scale of scales): the candidate after candidate k
NextCandidate(k) == k + 1

\* a plausible slip: only the scale is put back
RestoreScaleOnly(rec) == [stage EXCEPT !.scale = rec.previousScale]

\* finally { stage.scale(previousScale); stage.size(previousSize) }
RestoreStage(rec) ==
  [scale |-> rec.previousScale,
   width |-> rec.previousSize.width,
   height |-> rec.previousSize.height]

\* handleDownload once attemptExport has settled with `res`: the snackbar of
\* the try or catch block, then the finally block
FinishDownload(e, rec, res) ==
  /\ exports' = [exports EXCEPT ![e] = DoneExport]
  /\ settled' = [id |-> e, rec |-> [rec EXCEPT !.pc = "done", !.result = res]]
  /\ snackbar' = IF res.kind = "error" THEN "Export failed"
                 ELSE IF res.scale < 180 THEN "Exported at reduced resolution"
                 ELSE snackbar
  /\ stage' = RestoreStage(rec)
  /\ isProcessing' = FALSE

\* a plausible slip: onProgress is called after the stage was resized
ProgressAfterResize(k) == k - 1

\* onProgress?.(...) stands before the try block: when the stage is resized
\* for candidate k, candidate k is the last one announced
ProgressBeforeResize(k) == k

\* the for loop of attemptExport entered for candidate k, up to its next
\* await: the resize of candidate k, or the throw once the ladder is used up
RunLoop(e, rec, k, busy) ==
  IF k <= Len(rec.scales)
    THEN /\ exports' = [exports EXCEPT ![e] =
                 [rec EXCEPT !.pc = "stabilize", !.idx = k,
                             !.rasterized = NoRaster,
                             !.log = Append(@, [ev |-> "resize", k |-> k,
                                                announced |-> ProgressBeforeResize(k)])]]
         /\ settled' = NotSettled
         /\ stage' = ExportStage(rec.scales[k], fullExportWidth, fullStageHeight)
         /\ isProcessing' = busy
         /\ snackbar' = snackbar
    ELSE FinishDownload(e, rec,
           [kind |-> "error",
            cause |-> IF rec.lastError = NoError THEN GenericError
                      ELSE rec.lastError])

\* a plausible slip: setIsProcessing(true) stands before the guard
BusyBeforeGuard == TRUE

\* the guard of handleDownload stands before setIsProcessing(true)
GuardBeforeBusy == isProcessing

\* if (!stageRef.current || !assets.length) { setSnackbar(...); return }
RefuseDownload ==
  /\ snackbar' = "Add photos before exporting"
  /\ isProcessing' = GuardBeforeBusy
  /\ settled' = Refused
  /\ UNCHANGED <<stage, exports, started>>

\* the Fab's onClick; it is not disabled while an export is running.  The
\* Stage is rendered, and stageRef.current set, exactly while there are
\* photos.
handleDownload ==
  /\ IF stage = NoRaster \/ Len(assets) = 0
       THEN RefuseDownload
       ELSE /\ started < MaxExports
            /\ LET e == started + 1
                   safe == getSafeExportScale(platform, fullExportWidth,
                                              fullStageHeight)
                   rec == [IdleExport EXCEPT
                             !.previousScale = stage.scale,
                             !.previousSize = [width |-> stage.width,
                                               height |-> stage.height],
                             !.began = stage,
                             !.safeScale = safe,
                             !.scales = BuildLadder(safe)]
               IN RunLoop(e, rec, 1, TRUE)
            /\ started' = started + 1
  /\ UNCHANGED <<frameVars, estimatorVars, budgetVars, assetVars, layoutVars>>

\* the 100 ms wait is over: stage.toCanvas() rasterizes the stage as it is now
Rasterize(e) ==
  /\ exports[e].pc = "stabilize"
  /\ exports' = [exports EXCEPT ![e].pc = "encode", ![e].rasterized = stage]
  /\ settled' = NotSettled
  /\ UNCHANGED <<stage, started, isProcessing, snackbar>>
  /\ UNCHANGED <<frameVars, estimatorVars, budgetVars, assetVars, layoutVars>>

\* a plausible slip: the catch block without its 200 ms wait
CatchBlockNoCooldown(e) ==
  /\ LET k == exports[e].idx
         rec == [exports[e] EXCEPT
                   !.lastError = CatchError(@, Thrown(k)),
                   !.log = Append(@, [ev |-> "fail", k |-> k])]
     IN RunLoop(e, rec, NextCandidate(k), isProcessing)
  /\ UNCHANGED <<started, frameVars, estimatorVars, budgetVars, assetVars, layoutVars>>

\* a plausible slip: every failed attempt is reported to the user
ReportAttemptFailure == "Export failed"

\* the catch block of attemptExport reports to the console only
\* (console.warn): the snackbar stays as it is
WarnAttemptFailure == snackbar

\* catch (error) { lastError = ...; await new Promise(... 200) }
CatchBlock(e) ==
  /\ LET k == exports[e].idx
     IN exports' = [exports EXCEPT
                      ![e].lastError = CatchError(@, Thrown(k)),
                      ![e].pc = "cooldown",
                      ![e].log = Append(@, [ev |-> "fail", k |-> k])]
  /\ settled' = NotSettled
  /\ snackbar' = WarnAttemptFailure
  /\ UNCHANGED <<stage, started, isProcessing>>
  /\ UNCHANGED <<frameVars, estimatorVars, budgetVars, assetVars, layoutVars>>

\* stage.toCanvas() throws
RasterizeThrows(e) ==
  /\ exports[e].pc = "stabilize"
  /\ CatchBlock(e)

\* canvas.toBlob calls back with null: canvasToBlobAsync rejects
EncodeFails(e) ==
  /\ exports[e].pc = "encode"
  /\ CatchBlock(e)

\* canvas.toBlob calls back with a blob: return { blob, scale }, and
\* handleDownload runs to its end
EncodeSucceeds(e) ==
  /\ exports[e].pc = "encode"
  /\ LET k == exports[e].idx
         rec == [exports[e] EXCEPT !.log = Append(@, [ev |-> "ok", k |-> k])]
     IN FinishDownload(e, rec, [kind |-> "blob", scale |-> rec.scales[k]])
  /\ UNCHANGED <<started, frameVars, estimatorVars, budgetVars, assetVars, layoutVars>>

\* the 200 ms wait is over: the loop goes on to the next candidate
CooldownElapses(e) ==
  /\ exports[e].pc = "cooldown"
  /\ LET k == exports[e].idx
         rec == [exports[e] EXCEPT !.log = Append(@, [ev |-> "cooldown", k |-> k])]
     IN RunLoop(e, rec, NextCandidate(k), isProcessing)
  /\ UNCHANGED <<started, frameVars, estimatorVars, budgetVars, assetVars, layoutVars>>

NextExport ==
  \/ handleDownload
  \/ \E e \in ExportIds : Rasterize(e)
  \/ \E e \in ExportIds : RasterizeThrows(e)
  \/ \E e \in ExportIds : EncodeFails(e)
  \/ \E e \in ExportIds : EncodeSucceeds(e)
  \/ \E e \in ExportIds : CooldownElapses(e)

\* the export on its own: the estimator's actions write none of stage,
\* exports, started, isProcessing and snackbar
SpecExport == Init /\ [][NextExport]_vars

\* what the browser does for export e without the user: the timers of the
\* two waits fire, stage.toCanvas() returns or throws, and canvas.toBlob
\* calls back
BrowserStep(e) ==
  \/ Rasterize(e)
  \/ RasterizeThrows(e)
  \/ EncodeFails(e)
  \/ EncodeSucceeds(e)
  \/ CooldownElapses(e)

\* the export with its timers and callbacks eventually served (setTimeout
\* timers fire and toBlob calls back for as long as the page is open)
SpecExportFair ==
  SpecExport /\ \A e \in ExportIds : WF_vars(BrowserStep(e))

(***************************************************************************)
(* The size-estimator effect                                                *)
(***************************************************************************)
\* a plausible slip: the effect returns no cleanup function
NoCleanup == <<pendingTimers, cancelled>>

\* a plausible slip: the cleanup sets the flag but leaves the timeout
CleanupFlagOnly == <<pendingTimers, cancelled \cup {effectRuns}>>

\* the cleanup of the latest effect run: cancelled = true;
\* window.clearTimeout(timeout).  Gives <<pendingTimers, cancelled>>.
EffectCleanup ==
  <<{t \in pendingTimers : t.tok # effectRuns}, cancelled \cup {effectRuns}>>

\* the effect runs for a render with quality preset `preset` and photo set
\* `shown`, after the cleanup of the run before it; the Stage is rendered
\* (stageRef.current is set) exactly when the photo set is not empty
RunEstimatorEffect(preset, shown) ==
  LET cleaned == EffectCleanup
      tok == effectRuns + 1
  IN /\ effectRuns' = tok
     /\ cancelled' = cleaned[2]
     /\ lastWriter' = tok
     /\ lastEncode' = lastEncode
     /\ IF Len(shown) = 0 \/ fullStageHeight <= 0
          THEN /\ estimatedSize' = NullSize
               /\ isEstimating' = FALSE
               /\ pendingTimers' = cleaned[1]
          ELSE /\ isEstimating' = TRUE
               /\ pendingTimers' = cleaned[1] \cup {Timer(tok, preset)}
               /\ estimatedSize' = estimatedSize

\* the quality ToggleButtonGroup: if (value) setCompressionPreset(value);
\* compressionQuality is a dependency of the estimator effect
setCompressionPreset(value) ==
  /\ value # compressionPreset
  /\ effectRuns <= MaxReschedules
  /\ compressionPreset' = value
  /\ RunEstimatorEffect(value, assets)
  /\ settled' = NotSettled
  /\ UNCHANGED <<stage, exports, started, isProcessing, snackbar>>
  /\ UNCHANGED <<frameVars, budgetVars, assetVars, layoutVars>>

\* a plausible slip: the catch block leaves the estimate as it is
StaleEstimateAfterThrow == estimatedSize

\* catch (error) { ...; if (!cancelled) setEstimatedSize(null) }
EstimateAfterThrow == NullSize

\* the encoder behind stage.toDataURL: the number of bytes of the JPEG of
\* a raster at a quality in hundredths.  One encoder whose output does not
\* shrink when the quality is raised: a header and a share of the pixel
\* count that grows with the quality.
EncodedBytes(raster, quality) ==
  MulDivMod(raster.width * raster.height, quality, 64 * 100)[1] + 600

\* the base64 payload of a data URL of n bytes: its length and the number
\* of '=' at its end
Base64Of(n) == [length |-> 4 * ((n + 2) \div 3), padding |-> (3 - (n % 3)) % 3]

\* Math.round((base64.length * 3) / 4 - padding); 0 without a payload
dataUrlToBytes(base64) ==
  IF base64.length = 0 THEN 0 ELSE (base64.length * 3) \div 4 - base64.padding

\* previewBytes * stageScaleFactor, stageScaleFactor = 1 / liveScale^2 =
\* (fullExportWidth / previewCanvasWidth)^2, kept to whole bytes
scaledBytes(previewBytes) ==
  MulDivMod(previewBytes, fullExportWidth * fullExportWidth,
            PREVIEW_MAX_WIDTH * PREVIEW_MAX_WIDTH)[1]

\* the 3 s timeout of an effect run fires: the callback encodes the stage as
\* it is now (stageRef.current.toDataURL), which may throw
EstimatorTimerFires(t) ==
  /\ t \in pendingTimers
  /\ pendingTimers' = pendingTimers \ {t}
  /\ IF t.tok \in cancelled \/ Len(assets) = 0
       THEN UNCHANGED <<estimatedSize, isEstimating, lastWriter, lastEncode>>
       ELSE /\ \/ /\ estimatedSize' = EstimateAfterThrow
                  /\ lastEncode' = [outcome |-> "threw"]
               \/ /\ estimatedSize' =
                       [kind |-> "bytes", of |-> stage, quality |-> t.quality,
                        bytes |-> scaledBytes(dataUrlToBytes(
                                    Base64Of(EncodedBytes(stage, t.quality))))]
                  /\ lastEncode' = [outcome |-> "ok"]
            /\ isEstimating' = FALSE
            /\ lastWriter' = t.tok
  /\ settled' = NotSettled
  /\ UNCHANGED <<compressionPreset, effectRuns, cancelled>>
  /\ UNCHANGED <<stage, exports, started, isProcessing, snackbar>>
  /\ UNCHANGED <<frameVars, budgetVars, assetVars, layoutVars>>

NextEstimator ==
  \/ \E value \in CompressionPreset : setCompressionPreset(value)
  \/ \E t \in pendingTimers : EstimatorTimerFires(t)

\* the estimator on its own: the export's actions write none of the
\* estimator's variables
SpecEstimator == Init /\ [][NextEstimator]_vars

Next == NextExport \/ NextEstimator

Spec == Init /\ [][Next]_vars

\* the 3 s timeout of the estimator effect fires unless it is cleared
\* before
EstimatorStep == \E t \in pendingTimers : EstimatorTimerFires(t)

\* the estimator with its timer eventually served
SpecEstimatorFair == SpecEstimator /\ WF_vars(EstimatorStep)

\* export and estimator with every timer and callback eventually served
SpecFair ==
  /\ Spec
  /\ WF_vars(EstimatorStep)
  /\ \A e \in ExportIds : WF_vars(BrowserStep(e))

(***************************************************************************)
(* getSafeExportScale and the ladder on their own                           *)
(***************************************************************************)
BudgetWidths == {1200, 3696, 4000}
BudgetHeights == {1000, 3000, 3246, 3247, 6000, 6493, 6494, 12000, 27056,
                  27057, 27100, 60600, 150000}

InitBudget ==
  /\ platform = "desktop"
  /\ fullStageHeight = 2000
  /\ stage = PreviewStage(fullStageHeight)
  /\ exports = [e \in ExportIds |-> IdleExport]
  /\ started = 0
  /\ settled = NotSettled
  /\ isProcessing = FALSE
  /\ snackbar = "none"
  /\ compressionPreset = "balanced"
  /\ estimatedSize = NullSize
  /\ isEstimating = FALSE
  /\ effectRuns = 0
  /\ pendingTimers = {}
  /\ cancelled = {}
  /\ lastWriter = 0
  /\ lastEncode = NoEncode
  /\ budgetArgs \in PlatformClass \X BudgetWidths \X BudgetHeights
  /\ budgetResult = <<>>
  /\ assets = <<>>
  /\ released = <<>>
  /\ decodedCount = 0
  /\ NothingElseStarted
  /\ SlidersSettled

\* const safeScale = getSafeExportScale(fullWidth, fullHeight);
\* const scales = [...].filter(s => s > 0.1)
BuildScales ==
  /\ budgetResult = <<>>
  /\ LET safe == getSafeExportScale(budgetArgs[1], budgetArgs[2], budgetArgs[3])
     IN budgetResult' = <<safe, BuildLadder(safe)>>
  /\ UNCHANGED <<budgetArgs, frameVars, exportVars, estimatorVars, assetVars,
                 layoutVars>>

SpecBudget == InitBudget /\ [][BuildScales]_vars

(***************************************************************************)
(* The asset lifecycle: processFiles, resetState and the unmount cleanup    *)
(***************************************************************************)
\* the files of one selection, in order: TRUE for a file readFileAsAsset
\* decodes, FALSE for one it rejects
FileLists ==
  {<<TRUE>>, <<FALSE>>, <<TRUE, FALSE>>, <<TRUE, TRUE, TRUE, TRUE>>,
   <<TRUE, TRUE, TRUE, FALSE>>, <<FALSE, TRUE, TRUE, TRUE>>}

\* the frame height of every photo set of this part of the model; the
\* program's is at least FRAME_PADDING * 2, so never zero
AssetsFrameHeight == 20 * 100

isMobile(p) == p \in {"ios", "mobile"}

\* a plausible slip: the limits of the two platform classes swapped
maxImagesSwapped(p) == IF isMobile(p) THEN MAX_IMAGES_DESKTOP ELSE MAX_IMAGES_MOBILE

maxImagesOf(p) == IF isMobile(p) THEN MAX_IMAGES_MOBILE ELSE MAX_IMAGES_DESKTOP
batchSizeOf(p) == IF isMobile(p) THEN BATCH_SIZE_MOBILE ELSE BATCH_SIZE_DESKTOP

Min(a, b) == IF a <= b THEN a ELSE b

\* the handles of a sequence of assets
HandlesOf(collection) == {collection[j] : j \in 1..Len(collection)}

\* disposeAssets(collection): releaseImageSource on each asset's handle.
\* Gives the new value of `released`.
disposeAssets(collection) ==
  [h \in 1..Len(released) |->
     released[h] + Cardinality({j \in 1..Len(collection) : collection[j] = h})]

\* React renders the mounted App with photo set `shown`: the Stage is
\* rendered at its preview size exactly when there are photos, and the
\* estimator effect runs again because `assets` is one of its dependencies
Render(shown) ==
  /\ stage' = IF Len(shown) = 0 THEN NoRaster ELSE PreviewStage(fullStageHeight)
  /\ compressionPreset' = compressionPreset
  /\ RunEstimatorEffect(compressionPreset, shown)

\* processFiles up to its first await (the 100 ms delay)
processFiles(incoming) ==
  /\ mounted
  /\ uploadsStarted < MaxUploads
  /\ Len(incoming) > 0
  /\ LET u == uploadsStarted + 1
         maxImages == maxImagesOf(platform)
         selected == SubSeq(incoming, 1, Min(Len(incoming), maxImages))
     IN /\ uploads' = [uploads EXCEPT ![u] =
                         [IdleUpload EXCEPT !.pc = "gc", !.incoming = incoming,
                                            !.selected = selected,
                                            !.notified = Len(incoming) > maxImages]]
        /\ snackbar' = IF Len(incoming) > maxImages
                         THEN "Only the first images were queued"
                         ELSE snackbar
  /\ uploadsStarted' = uploadsStarted + 1
  /\ isProcessing' = TRUE
  /\ released' = disposeAssets(assets)
  /\ assets' = <<>>
  /\ Render(<<>>)
  /\ settled' = NotSettled
  /\ UNCHANGED <<exports, started, decodedCount, resets, mounted>>
  /\ UNCHANGED <<frameVars, budgetVars, layoutVars>>

\* the 100 ms delay is over: the loop starts its first batch and awaits
\* Promise.all of its decodes
GcDelayElapses(u) ==
  /\ uploads[u].pc = "gc"
  /\ uploads' = [uploads EXCEPT ![u].pc = "decode"]
  /\ settled' = NotSettled
  /\ UNCHANGED <<stage, exports, started, isProcessing, snackbar>>
  /\ UNCHANGED <<assets, released, decodedCount, uploadsStarted, resets, mounted>>
  /\ UNCHANGED <<frameVars, estimatorVars, budgetVars, layoutVars>>

\* the loop after a batch: the next batch if i < selected.length, otherwise
\* the finally block
ContinueUpload(u, rec) ==
  IF rec.i < Len(rec.selected)
    THEN /\ uploads' = [uploads EXCEPT ![u] = [rec EXCEPT !.pc = "decode"]]
         /\ isProcessing' = isProcessing
    ELSE /\ uploads' = [uploads EXCEPT ![u] = [rec EXCEPT !.pc = "done"]]
         /\ isProcessing' = IF mounted THEN FALSE ELSE isProcessing


\* setAssets(value) and the render it causes; a state update of an
\* unmounted component is ignored
setAssets(value) ==
  IF mounted
    THEN /\ assets' = value
         /\ Render(value)
    ELSE UNCHANGED <<assets, stage, estimatorVars>>

\* Promise.all of the current batch settles.  Every file of the batch that
\* can be decoded is decoded (a decode is not stopped by the rejection of
\* another one); the batch results reach `loaded` only if all of them resolved.
BatchSettles(u) ==
  /\ uploads[u].pc = "decode"
  /\ LET rec == uploads[u]
         size == batchSizeOf(platform)
         batch == SubSeq(rec.selected, rec.i + 1,
                         Min(rec.i + size, Len(rec.selected)))
         n == Cardinality({j \in 1..Len(batch) : batch[j]})
         batchResults == [j \in 1..n |-> decodedCount + j]
         after == [rec EXCEPT !.loaded = rec.loaded \o batchResults,
                              !.i = rec.i + size]
     IN /\ decodedCount' = decodedCount + n
        /\ released' = released \o [j \in 1..n |-> 0]
        /\ IF n = Len(batch)
             THEN /\ setAssets(after.loaded)
                  /\ snackbar' = snackbar
                  /\ IF isMobile(platform)
                       THEN /\ uploads' = [uploads EXCEPT ![u] =
                                             [after EXCEPT !.pc = "yield"]]
                            /\ isProcessing' = isProcessing
                       ELSE ContinueUpload(u, after)
             ELSE /\ uploads' = [uploads EXCEPT ![u] =
                                   [rec EXCEPT !.pc = "done", !.failed = TRUE]]
                  /\ snackbar' = IF mounted THEN "Unable to load" ELSE snackbar
                  /\ isProcessing' = IF mounted THEN FALSE ELSE isProcessing
                  /\ UNCHANGED <<assets, stage, estimatorVars>>
  /\ settled' = NotSettled
  /\ UNCHANGED <<exports, started, uploadsStarted, resets, mounted>>
  /\ UNCHANGED <<frameVars, budgetVars, layoutVars>>

\* the 50 ms pause between batches on mobile is over
YieldElapses(u) ==
  /\ uploads[u].pc = "yield"
  /\ ContinueUpload(u, uploads[u])
  /\ settled' = NotSettled
  /\ UNCHANGED <<stage, exports, started, snackbar>>
  /\ UNCHANGED <<assets, released, decodedCount, uploadsStarted, resets, mounted>>
  /\ UNCHANGED <<frameVars, estimatorVars, budgetVars, layoutVars>>

\* the "Clear all" button, which is rendered while there are photos
resetState ==
  /\ mounted
  /\ resets < MaxResets
  /\ Len(assets) > 0
  /\ released' = (IF Len(assets) > 0 THEN disposeAssets(assets) ELSE released)
  /\ assets' = <<>>
  /\ Render(<<>>)
  /\ snackbar' = "Canvas cleared"
  /\ resets' = resets + 1
  /\ settled' = NotSettled
  /\ UNCHANGED <<exports, started, isProcessing>>
  /\ UNCHANGED <<decodedCount, uploads, uploadsStarted, mounted>>
  /\ UNCHANGED <<frameVars, budgetVars, layoutVars>>

\* the App is unmounted: every effect cleanup runs, among them
\* disposeAssets(assetsRef.current) and the estimator's; the component's
\* state is gone with it
Unmount ==
  /\ mounted
  /\ mounted' = FALSE
  /\ released' = disposeAssets(assets)
  /\ assets' = <<>>
  /\ stage' = NoRaster
  /\ pendingTimers' = EffectCleanup[1]
  /\ cancelled' = EffectCleanup[2]
  /\ settled' = NotSettled
  /\ UNCHANGED <<compressionPreset, estimatedSize, isEstimating, effectRuns,
                 lastWriter, lastEncode>>
  /\ UNCHANGED <<exports, started, isProcessing, snackbar>>
  /\ UNCHANGED <<decodedCount, uploads, uploadsStarted, resets>>
  /\ UNCHANGED <<frameVars, budgetVars, layoutVars>>

NextAssets ==
  \/ \E incoming \in FileLists : processFiles(incoming)
  \/ \E u \in UploadIds : GcDelayElapses(u)
  \/ \E u \in UploadIds : BatchSettles(u)
  \/ \E u \in UploadIds : YieldElapses(u)
  \/ resetState
  \/ Unmount
  \/ \E t \in pendingTimers : EstimatorTimerFires(t)

\* the App after construction: no photos, so no Stage is rendered, and the
\* estimator effect of the first render has set "unknown"
InitAssets ==
  /\ platform \in PlatformClass
  /\ fullStageHeight = AssetsFrameHeight
  /\ stage = NoRaster
  /\ exports = [e \in ExportIds |-> IdleExport]
  /\ started = 0
  /\ settled = NotSettled
  /\ isProcessing = FALSE
  /\ snackbar = "none"
  /\ compressionPreset = "balanced"
  /\ estimatedSize = NullSize
  /\ isEstimating = FALSE
  /\ effectRuns = 1
  /\ pendingTimers = {}
  /\ cancelled = {}
  /\ lastWriter = 1
  /\ lastEncode = NoEncode
  /\ budgetArgs = <<>>
  /\ budgetResult = <<>>
  /\ assets = <<>>
  /\ released = <<>>
  /\ decodedCount = 0
  /\ NothingElseStarted
  /\ SlidersSettled

\* uploads, resets, the unmount and the estimator's timer; no export runs
SpecAssets == InitAssets /\ [][NextAssets]_vars

\* a selection of n files that readFileAsAsset all decodes
AllDecodable(n) == [j \in 1..n |-> TRUE]

\* selections around the photo limit: one file more than the platform's
\* limit, exactly the limit, and a single file
LimitFileLists ==
  {AllDecodable(maxImagesOf(platform) + 1), AllDecodable(maxImagesOf(platform)),
   AllDecodable(1)}

\* the file input's onChange (handleFiles) or a drop on the Paper
\* (handleDrop), made with the pointer: while isProcessing the Backdrop
\* covers both
handleFiles(incoming) ==
  /\ ~isProcessing
  /\ processFiles(incoming)

\* the "Clear all" button clicked; the Backdrop covers it while isProcessing
clickReset ==
  /\ ~isProcessing
  /\ resetState

\* handleDownload called while there is no photo
downloadWithoutPhotos ==
  /\ Len(assets) = 0
  /\ handleDownload

NextLimit ==
  \/ \E incoming \in LimitFileLists : handleFiles(incoming)
  \/ downloadWithoutPhotos
  \/ \E u \in UploadIds : GcDelayElapses(u)
  \/ \E u \in UploadIds : BatchSettles(u)
  \/ \E u \in UploadIds : YieldElapses(u)
  \/ clickReset

\* uploads of as many files as the limit allows and of more, and resets,
\* one after the other
SpecLimit == InitAssets /\ [][NextLimit]_vars

\* the estimator of a loaded photo set together with "Clear all"
NextEstimate == NextEstimator \/ resetState

SpecEstimate == Init /\ [][NextEstimate]_vars

(***************************************************************************)
(* Layout (src/src/layouts.ts).  The packers compute with JavaScript        *)
(* numbers; here every number is an exact fraction <<numerator,             *)
(* denominator>> in lowest terms with a positive denominator.               *)
(***************************************************************************)
Abs(x) == IF x < 0 THEN 0 - x ELSE x

RECURSIVE GCD(_, _)
GCD(a, b) == IF b = 0 THEN a ELSE GCD(b, a % b)

\* the fraction n / d for integers n and d > 0
Rat(n, d) ==
  IF n = 0 THEN <<0, 1>>
  ELSE LET g == GCD(Abs(n), d) IN <<n \div g, d \div g>>

RInt(n) == <<n, 1>>
RAdd(a, b) == Rat(a[1] * b[2] + b[1] * a[2], a[2] * b[2])
RSub(a, b) == Rat(a[1] * b[2] - b[1] * a[2], a[2] * b[2])
RMul(a, b) == Rat(a[1] * b[1], a[2] * b[2])
\* a / b for b # 0
RDiv(a, b) ==
  IF b[1] > 0 THEN Rat(a[1] * b[2], a[2] * b[1])
  ELSE Rat(0 - a[1] * b[2], a[2] * (0 - b[1]))
RLe(a, b) == a[1] * b[2] <= b[1] * a[2]
RLt(a, b) == a[1] * b[2] < b[1] * a[2]
RMin(a, b) == IF RLe(a, b) THEN a ELSE b
RMax(a, b) == IF RLe(a, b) THEN b ELSE a

\* const clamp = (value, min, max) => Math.min(Math.max(value, min), max)
clamp(value, min, max) == RMin(RMax(value, min), max)

\* Math.max(...values) / Math.min(...values) of a non-empty array
MaxOf(values, n) ==
  CHOOSE v \in {values[c] : c \in 1..n} : \A c \in 1..n : RLe(values[c], v)

MinOf(values, n) ==
  CHOOSE v \in {values[c] : c \in 1..n} : \A c \in 1..n : RLe(v, values[c])

\* a plausible slip: lastIndexOf
LastIndexOf(values, v) ==
  CHOOSE c \in 1..Len(values) :
    values[c] = v /\ \A o \in (c + 1)..Len(values) : values[o] # v

\* values.indexOf(v) for a v that occurs in values (1-based here)
IndexOf(values, v) ==
  CHOOSE c \in 1..Len(values) :
    values[c] = v /\ \A o \in 1..(c - 1) : values[o] # v

\* a plausible slip: the ratio upside down
InverseRatio(photo) == Rat(photo.width, photo.height)

\* photo.height / photo.width
HeightOverWidth(photo) == Rat(photo.height, photo.width)

\* photos.forEach of computeMasonryLayout, run for photos k..Len(photos):
\* gives <<columnHeights, items>>.  Columns are numbered from 1 here, so
\* column c is the code's targetColumn c - 1; `column` is kept with each item.
RECURSIVE MasonryPlace(_, _, _, _, _, _)
MasonryPlace(photos, k, columnWidth, gutter, columnHeights, items) ==
  IF k > Len(photos) THEN <<columnHeights, items>>
  ELSE
    LET photo == photos[k]
        targetColumn == IndexOf(columnHeights, MinOf(columnHeights, Len(columnHeights)))
        height == RMul(HeightOverWidth(photo), columnWidth)
        item == [id |-> k,
                 x |-> RMul(RInt(targetColumn - 1), RAdd(columnWidth, gutter)),
                 y |-> columnHeights[targetColumn],
                 width |-> columnWidth,
                 height |-> height,
                 column |-> targetColumn]
    IN MasonryPlace(photos, k + 1, columnWidth, gutter,
                    [columnHeights EXCEPT ![targetColumn] =
                       RAdd(@, RAdd(height, gutter))],
                    Append(items, item))

\* Math.floor of a fraction
Floor(r) == r[1] \div r[2]

\* a plausible slip: the gutter is used as it was passed
RawGutter(gutter) == gutter

\* Math.max(0, options.gutter)
ClampGutter(gutter) == Max(0, gutter)

\* options.columns is a fraction, options.gutter and options.width are
\* whole numbers
computeMasonryLayout(photos, options) ==
  LET columns == Max(1, Floor(options.columns))
      gutter == RInt(ClampGutter(options.gutter))
      columnWidth == Rat(options.width - gutter[1] * (columns - 1), columns)
      placed == MasonryPlace(photos, 1, columnWidth, gutter,
                             [c \in 1..columns |-> RInt(0)], <<>>)
  IN [width |-> RInt(options.width),
      height |-> RMax(RInt(0), RSub(MaxOf(placed[1], columns), gutter)),
      items |-> placed[2]]

\* photo.width / photo.height
AspectOf(photo) == Rat(photo.width, photo.height)

\* a plausible slip: the ideal height is used as it is
IdealRowHeight(isLastRow, target, idealHeight) == idealHeight

\* isLastRow ? Math.min(options.rowHeight, idealHeight)
\*           : clamp(idealHeight, minHeight, maxHeight)
RowHeightOf(isLastRow, target, idealHeight) ==
  IF isLastRow THEN RMin(target, idealHeight)
  ELSE clamp(idealHeight, RMul(target, Rat(3, 4)), RMul(target, Rat(5, 4)))

\* currentRow.map of flushRow, run for the photos j..Len(currentRow) of the
\* row: gives the row's items.  `row` and `final` (isLastRow) are kept with
\* each item.
\* a plausible slip: the cursor moves on by the item's width only
NoGutterAfter(index, count, gutter) == RInt(0)

\* index < currentRow.length - 1 ? gutter : 0, for the index-th photo of
\* count (counted from 1)
GutterAfter(index, count, gutter) == IF index < count THEN gutter ELSE RInt(0)

RECURSIVE PlaceRow(_, _, _, _, _, _, _, _, _)
PlaceRow(photos, currentRow, j, rowHeight, gutter, cursorX, cursorY, rowNo, isLastRow) ==
  IF j > Len(currentRow) THEN <<>>
  ELSE
    LET width == RMul(rowHeight, AspectOf(photos[currentRow[j]]))
        item == [id |-> currentRow[j], x |-> cursorX, y |-> cursorY,
                 width |-> width, height |-> rowHeight,
                 row |-> rowNo, final |-> isLastRow]
        step == GutterAfter(j, Len(currentRow), gutter)
    IN <<item>> \o PlaceRow(photos, currentRow, j + 1, rowHeight, gutter,
                            RAdd(cursorX, RAdd(width, step)), cursorY, rowNo,
                            isLastRow)

\* a plausible slip: the gutters of the row are not taken off
WholeWidth(targetWidth, gutter, count) == RInt(targetWidth)

\* const availableWidth = targetWidth - gutter * (currentRow.length - 1)
AvailableWidth(targetWidth, gutter, count) ==
  RSub(RInt(targetWidth), RMul(gutter, RInt(count - 1)))

\* flushRow(isLastRow) for a non-empty currentRow: gives <<placedRow, the new
\* cursorY>>
flushRow(photos, options, gutter, currentRow, rowAspectSum, cursorY, rowNo, isLastRow) ==
  LET availableWidth == AvailableWidth(options.width, gutter, Len(currentRow))
      idealHeight == RDiv(availableWidth, rowAspectSum)
      rowHeight == RowHeightOf(isLastRow, RInt(options.rowHeight), idealHeight)
  IN <<PlaceRow(photos, currentRow, 1, rowHeight, gutter, RInt(0), cursorY,
                rowNo, isLastRow),
       RAdd(cursorY, RAdd(rowHeight, gutter))>>

\* a plausible slip: virtualRowWidth > targetWidth
RowIsOverfull(virtualRowWidth, targetWidth) == RLt(RInt(targetWidth), virtualRowWidth)

\* virtualRowWidth >= targetWidth
RowIsFull(virtualRowWidth, targetWidth) == RLe(RInt(targetWidth), virtualRowWidth)

\* a plausible slip: the row still open after the last photo is not flushed
FlushOnlyWhenFull(full, isLastPhoto) == full

\* if (virtualRowWidth >= targetWidth || isLastPhoto) flushRow(isLastPhoto)
MustFlush(full, isLastPhoto) == full \/ isLastPhoto

\* photos.forEach of computeJustifiedLayout, run for photos k..Len(photos):
\* gives <<items of all rows, cursorY>>
RECURSIVE JustifiedPlace(_, _, _, _, _, _, _, _, _)
JustifiedPlace(photos, k, options, gutter, currentRow, rowAspectSum, cursorY, rowNo, items) ==
  IF k > Len(photos) THEN <<items, cursorY>>
  ELSE
    LET row == Append(currentRow, k)
        sum == RAdd(rowAspectSum, AspectOf(photos[k]))
        virtualRowWidth == RAdd(RMul(RInt(options.rowHeight), sum),
                                RMul(gutter, RInt(Len(row) - 1)))
        isLastPhoto == k = Len(photos)
    IN IF MustFlush(RowIsFull(virtualRowWidth, options.width), isLastPhoto)
         THEN LET flushed == flushRow(photos, options, gutter, row, sum,
                                      cursorY, rowNo, isLastPhoto)
              IN JustifiedPlace(photos, k + 1, options, gutter, <<>>, RInt(0),
                                flushed[2], rowNo + 1, items \o flushed[1])
         ELSE JustifiedPlace(photos, k + 1, options, gutter, row, sum,
                             cursorY, rowNo, items)

computeJustifiedLayout(photos, options) ==
  LET gutter == RInt(ClampGutter(options.gutter))
      placed == JustifiedPlace(photos, 1, options, gutter, <<>>, RInt(0),
                               RInt(0), 1, <<>>)
  IN [width |-> RInt(options.width),
      height |-> RMax(RInt(0), RSub(placed[2], gutter)),
      items |-> placed[1]]

\* photo dimensions (width, height): a square, a portrait, a panorama and a
\* 3:2 landscape
PhotoSizes == {<<1, 1>>, <<1, 2>>, <<4, 1>>, <<3, 2>>}

BarePhotos == {[width |-> d[1], height |-> d[2]] : d \in PhotoSizes}

PhotoLists == UNION {[1..n -> BarePhotos] : n \in 0..MaxPhotos}

\* MasonryOptions: the width and gutter the App passes, and one list
\* without gutter; 114 is the first column count with
\* gutter * (columns - 1) > width, 228 the first with
\* 2 * columnWidth + gutter < 0.  Then the values the packer clamps:
\* columns 0, -2, 5/2 and -1/2, and a negative gutter.
MasonryOptionSets ==
  {[columns |-> RInt(c), gutter |-> DEFAULT_GUTTER, width |-> EXPORT_WIDTH] :
     c \in {1, 2, 3, 114, 228}}
    \cup {[columns |-> RInt(2), gutter |-> 0, width |-> EXPORT_WIDTH]}
    \cup {[columns |-> c, gutter |-> DEFAULT_GUTTER, width |-> EXPORT_WIDTH] :
            c \in {RInt(0), RInt(-2), Rat(5, 2), Rat(-1, 2)}}
    \cup {[columns |-> Rat(5, 2), gutter |-> -8, width |-> EXPORT_WIDTH]}

\* JustifiedOptions: the App's, narrower targets that three photos fill
\* (one that a 3:2 photo at rowHeight 400 fills exactly), targets narrower
\* than two gutters, and a negative gutter
JustifiedOptionSets ==
  {[rowHeight |-> DEFAULT_ROW_HEIGHT, gutter |-> DEFAULT_GUTTER, width |-> EXPORT_WIDTH],
   [rowHeight |-> DEFAULT_ROW_HEIGHT, gutter |-> DEFAULT_GUTTER, width |-> 600],
   [rowHeight |-> 220, gutter |-> DEFAULT_GUTTER, width |-> 600],
   [rowHeight |-> 400, gutter |-> DEFAULT_GUTTER, width |-> 600],
   [rowHeight |-> 480, gutter |-> 0, width |-> 600],
   [rowHeight |-> 10, gutter |-> 60, width |-> 100],
   [rowHeight |-> 10, gutter |-> 50, width |-> 100],
   [rowHeight |-> 220, gutter |-> -DEFAULT_GUTTER, width |-> 600]}

InitLayout ==
  /\ platform = "desktop"
  /\ fullStageHeight = AssetsFrameHeight
  /\ stage = NoRaster
  /\ exports = [e \in ExportIds |-> IdleExport]
  /\ started = 0
  /\ settled = NotSettled
  /\ isProcessing = FALSE
  /\ snackbar = "none"
  /\ compressionPreset = "balanced"
  /\ estimatedSize = NullSize
  /\ isEstimating = FALSE
  /\ effectRuns = 1
  /\ pendingTimers = {}
  /\ cancelled = {}
  /\ lastWriter = 1
  /\ lastEncode = NoEncode
  /\ budgetArgs = <<>>
  /\ budgetResult = <<>>
  /\ assets = <<>>
  /\ released = <<>>
  /\ decodedCount = 0
  /\ uploads = [u \in UploadIds |-> IdleUpload]
  /\ uploadsStarted = 0
  /\ resets = 0
  /\ mounted = TRUE
  /\ \/ layoutArgs \in [mode : {"masonry"}, photos : PhotoLists,
                        options : MasonryOptionSets]
     \/ layoutArgs \in [mode : {"justified"}, photos : PhotoLists,
                        options : JustifiedOptionSets]
  /\ layoutResult = <<>>
  /\ SlidersSettled

\* computeMasonryLayout(photos, options) is called
LayoutMasonry ==
  /\ layoutResult = <<>>
  /\ layoutArgs.mode = "masonry"
  /\ layoutResult' = <<computeMasonryLayout(layoutArgs.photos, layoutArgs.options)>>
  /\ UNCHANGED <<layoutArgs, frameVars, exportVars, estimatorVars, budgetVars,
                 assetVars, sliderVars>>

\* computeJustifiedLayout(photos, options) is called
LayoutJustified ==
  /\ layoutResult = <<>>
  /\ layoutArgs.mode = "justified"
  /\ layoutResult' = <<computeJustifiedLayout(layoutArgs.photos, layoutArgs.options)>>
  /\ UNCHANGED <<layoutArgs, frameVars, exportVars, estimatorVars, budgetVars,
                 assetVars, sliderVars>>

NextLayout == LayoutMasonry \/ LayoutJustified

SpecLayout == InitLayout /\ [][NextLayout]_vars

(***************************************************************************)
(* The sliders and their debounced copies                                   *)
(***************************************************************************)
MaxSliderMoves == 3

SliderNames == {"columns", "rowHeight"}

\* positions of the columns slider (min 2, max 6, step 1) and of the row
\* height slider (min 220, max 480, step 20) around their defaults
SliderPositions == [columns |-> {3, 4, 5}, rowHeight |-> {320, 340, 360}]

\* let timeoutId = null: the closure variable of a debounce() call that has
\* set no timer yet
NoTimeout == 0

\* the function debounce(fn, 300) returns, called with closure variable
\* timeoutId: if (timeoutId) clearTimeout(timeoutId);
\* timeoutId = setTimeout(() => fn(...args), delay).  Gives the timers
\* pending after the call.
debounce(timeoutId, timers, entry) ==
  Append(SelectSeq(timers, LAMBDA t : timeoutId = NoTimeout \/ t.id # timeoutId),
         entry)

\* the body of a debounce effect for slider `name` in a render that shows
\* `value`: const handler = debounce(() => setDebounced...(value), 300);
\* handler().  The closure is new in every run of the effect, so its
\* timeoutId is null when handler is called.
RunDebounceEffect(name, value, id, timers) ==
  debounce(NoTimeout, timers, [id |-> id, slider |-> name, value |-> value])

\* the App has just been mounted without photos: both debounce effects have
\* run once, for the default values
InitSliders ==
  /\ platform = "desktop"
  /\ fullStageHeight = AssetsFrameHeight
  /\ stage = NoRaster
  /\ exports = [e \in ExportIds |-> IdleExport]
  /\ started = 0
  /\ settled = NotSettled
  /\ isProcessing = FALSE
  /\ snackbar = "none"
  /\ compressionPreset = "balanced"
  /\ estimatedSize = NullSize
  /\ isEstimating = FALSE
  /\ effectRuns = 1
  /\ pendingTimers = {}
  /\ cancelled = {}
  /\ lastWriter = 1
  /\ lastEncode = NoEncode
  /\ budgetArgs = <<>>
  /\ budgetResult = <<>>
  /\ assets = <<>>
  /\ released = <<>>
  /\ decodedCount = 0
  /\ NothingElseStarted
  /\ sliderValue = SliderDefaults
  /\ debouncedValue = SliderDefaults
  /\ sliderTimers =
       RunDebounceEffect("rowHeight", SliderDefaults.rowHeight, 2,
         RunDebounceEffect("columns", SliderDefaults.columns, 1, <<>>))
  /\ sliderMoves = 0

\* a slider's onChange: setColumns(value) or setRowHeight(value); the
\* render that follows runs the debounce effect of that slider (a value
\* equal to the state leaves the state, and the effect, alone)
moveSlider(name, value) ==
  /\ sliderMoves < MaxSliderMoves
  /\ value # sliderValue[name]
  /\ sliderValue' = [sliderValue EXCEPT ![name] = value]
  /\ sliderMoves' = sliderMoves + 1
  /\ sliderTimers' = RunDebounceEffect(name, value, sliderMoves + 3, sliderTimers)
  /\ settled' = NotSettled
  /\ UNCHANGED <<debouncedValue, layoutArgs, layoutResult>>
  /\ UNCHANGED <<stage, exports, started, isProcessing, snackbar>>
  /\ UNCHANGED <<frameVars, estimatorVars, budgetVars, assetVars>>

\* the oldest 300 ms timer fires (timers of equal delay fire in the order
\* they were set): setDebouncedColumns / setDebouncedRowHeight with the
\* value of the render that set the timer
DebounceTimerFires ==
  /\ sliderTimers # <<>>
  /\ LET t == Head(sliderTimers)
     IN debouncedValue' = [debouncedValue EXCEPT ![t.slider] = t.value]
  /\ sliderTimers' = Tail(sliderTimers)
  /\ settled' = NotSettled
  /\ UNCHANGED <<sliderValue, sliderMoves, layoutArgs, layoutResult>>
  /\ UNCHANGED <<stage, exports, started, isProcessing, snackbar>>
  /\ UNCHANGED <<frameVars, estimatorVars, budgetVars, assetVars>>

NextSlider ==
  \/ \E name \in SliderNames : \E value \in SliderPositions[name] :
       moveSlider(name, value)
  \/ DebounceTimerFires

SpecSlider == InitSliders /\ [][NextSlider]_vars

\* the sliders with the 300 ms timers eventually served
SpecSliderFair == SpecSlider /\ WF_vars(DebounceTimerFires)

(***************************************************************************)
(* Properties                                                               *)
(***************************************************************************)
\* the candidates (indices into the ladder) of the events of one type in an
\* attempt log, in the order they happened
KsOf(lg, type) ==
  LET evs == SelectSeq(lg, LAMBDA x : x.ev = type)
  IN [i \in 1..Len(evs) |-> evs[i].k]

UpTo(n) == [i \in 1..n |-> i]

Active(e) == exports[e].pc \in {"stabilize", "encode", "cooldown"}

\* the attempt logs of the exports in progress and of the one just ended
Logs ==
  {exports[e].log : e \in {x \in ExportIds : Active(x)}}
    \cup (IF settled.id = 0 THEN {} ELSE {settled.rec.log})

\* C1: when attemptExport returns a blob, the scale it returns is that of
\* ladder candidate k, the candidates attempted are exactly 1..k in ladder
\* order, candidates 1..k-1 each failed, and k succeeded last.
C1_FirstSuccessInLadderOrder ==
  (settled.id # 0 /\ settled.rec.result.kind = "blob") =>
    LET rec == settled.rec
        ok == KsOf(rec.log, "ok")
    IN /\ Len(ok) = 1
       /\ ok[1] \in 1..Len(rec.scales)
       /\ rec.result.scale = rec.scales[ok[1]]
       /\ KsOf(rec.log, "resize") = UpTo(ok[1])
       /\ KsOf(rec.log, "fail") = UpTo(ok[1] - 1)
       /\ rec.log[Len(rec.log)].ev = "ok"

\* an export returns the blob of its third candidate after two failures
C1_Witness ==
  /\ settled.id # 0
  /\ settled.rec.result.kind = "blob"
  /\ KsOf(settled.rec.log, "fail") = <<1, 2>>
  /\ settled.rec.result.scale = settled.rec.scales[3]

C3_ExhaustionThrowsLastCause ==
  (settled.id # 0 /\ settled.rec.result.kind = "error") =>
    LET rec == settled.rec
        n == Len(rec.scales)
    IN /\ KsOf(rec.log, "resize") = UpTo(n)
       /\ KsOf(rec.log, "fail") = UpTo(n)
       /\ rec.result.cause = Thrown(n)
       /\ rec.result.cause \notin {GenericError, WrappedError}

\* a ladder of four candidates is used up
C3_Witness ==
  /\ settled.id # 0
  /\ settled.rec.result.kind = "error"
  /\ Len(settled.rec.scales) = 4
  /\ settled.rec.result.cause = Thrown(4)

\* C5: within one attemptExport call the attempts follow one another: the
\* call starts with the resize of candidate 1, and the resize of any later
\* candidate k+1 comes directly after the cooldown that followed the failure
\* of candidate k.
C5_AttemptsSequential ==
  \A lg \in Logs :
    \A p \in 1..Len(lg) :
      lg[p].ev = "resize" =>
        IF p = 1 THEN lg[p].k = 1
        ELSE /\ p >= 3
             /\ lg[p - 1] = [ev |-> "cooldown", k |-> lg[p].k - 1]
             /\ lg[p - 2] = [ev |-> "fail", k |-> lg[p].k - 1]

\* an export is waiting for the stage to settle for its second candidate
C5_Witness ==
  \E e \in ExportIds :
    /\ exports[e].pc = "stabilize"
    /\ exports[e].idx = 2
    /\ KsOf(exports[e].log, "resize") = <<1, 2>>

\* the activation records of the exports in progress and of the one just ended
Records ==
  {exports[e] : e \in {x \in ExportIds : Active(x)}}
    \cup (IF settled.id = 0 THEN {} ELSE {settled.rec})

\* the timer callback of an effect run that was not cancelled runs in this
\* step, so it encodes the stage (stageRef.current.toDataURL)
TimerCallbackEncodes ==
  \E t \in pendingTimers :
    /\ t \notin pendingTimers'
    /\ effectRuns' = effectRuns
    /\ t.tok \notin cancelled

\* export e resizes the stage for a candidate in this step
ExportResizes(e) ==
  /\ exports'[e].pc = "stabilize"
  /\ exports'[e].log # exports[e].log

\* C4: while an export owns the stage (from its first resize until its
\* handleDownload has restored the stage), the estimator's timer callback
\* does not encode the stage and no other export resizes it.
C4_ExclusiveSurface ==
  [][/\ TimerCallbackEncodes => \A e \in ExportIds : ~Active(e)
     /\ \A e \in ExportIds :
          ExportResizes(e) => \A o \in ExportIds \ {e} : ~Active(o)]_vars

\* n * n * total <= 400 * maxPixels, that is (n/20 * w) * (n/20 * h) <= ceiling
WithinCeiling(n, total, maxPixels) ==
  LET qr == MulDivMod(total, n * n, maxPixels)
  IN qr[1] < 400 \/ (qr[1] = 400 /\ qr[2] = 0)

\* C6: getSafeExportScale(w, h) is 1 exactly when w * h <= ceiling; otherwise
\* it is a multiple v of 0.05 below 1 with (v * w) * (v * h) <= ceiling, and
\* the next multiple of 0.05 would exceed the ceiling (v is rounded down).
C6_SafeScale ==
  budgetResult # <<>> =>
    LET maxPixels == getMaxCanvasPixels(budgetArgs[1])
        total == budgetArgs[2] * budgetArgs[3]
        v == budgetResult[1]
        n == v \div 10
    IN /\ (v = ScaleUnit) <=> (total <= maxPixels)
       /\ total > maxPixels =>
            /\ v % 10 = 0
            /\ 0 <= v /\ v < ScaleUnit
            /\ WithinCeiling(n, total, maxPixels)
            /\ ~WithinCeiling(n + 1, total, maxPixels)

\* 3696 x 27100 on the 12,000,000 px class: sqrt(12 / 100.16) = 0.346 -> 0.30
C6_Witness ==
  /\ budgetArgs = <<"ios", 3696, 27100>>
  /\ budgetResult # <<>>
  /\ budgetResult[1] = 60

\* C7: every candidate attemptExport resizes the stage to stays within the
\* platform's pixel ceiling: round(s * width) * round(s * height) <= ceiling.
C7_AttemptsWithinCeiling ==
  \A rec \in Records :
    \A p \in 1..Len(rec.log) :
      rec.log[p].ev = "resize" =>
        RoundScaled(fullExportWidth, rec.scales[rec.log[p].k])
          * RoundScaled(fullStageHeight, rec.scales[rec.log[p].k])
          <= getMaxCanvasPixels(platform)

\* C8: the ladder is <<s, 0.7 s, 0.5 s, 0.25>> for s = safeScale, with the
\* entries <= 0.1 removed and the others kept in place; for s = 0.30 it is
\* <<0.30, 0.21, 0.15, 0.25>>.
C8_LadderExact ==
  budgetResult # <<>> =>
    LET s == budgetResult[1]
        scales == budgetResult[2]
        c == <<s, (7 * s) \div 10, s \div 2, 50>>
        keep == {j \in 1..4 : c[j] > 20}
        nth(i) == CHOOSE j \in keep : Cardinality({x \in keep : x < j}) = i - 1
    IN /\ Len(scales) = Cardinality(keep)
       /\ \A i \in 1..Len(scales) : scales[i] = c[nth(i)]
       /\ (s = 60 => scales = <<60, 42, 30, 50>>)

\* safeScale 0.20: 0.5 * 0.20 = 0.1 is removed, 0.14 and 0.25 stay
C8_Witness ==
  /\ budgetResult # <<>>
  /\ budgetResult[1] = 40
  /\ budgetResult[2] = <<40, 28, 50>>

\* C9: when attemptExport returns a blob, the returned scale is <= 1 and the
\* stage that toCanvas rasterized had scale factor `scale` and size
\* round(scale * width) x round(scale * height).
C9_RasterizedAtReturnedScale ==
  (settled.id # 0 /\ settled.rec.result.kind = "blob") =>
    /\ settled.rec.result.scale <= ScaleUnit
    /\ settled.rec.rasterized =
         ExportStage(settled.rec.result.scale, fullExportWidth, fullStageHeight)

\* C10: estimatedSize and isEstimating are only ever written by the latest
\* run of the estimator effect: a timer of an earlier run is neither pending
\* nor live once a newer run has been scheduled.
C10_OnlyLatestRunCommits ==
  /\ lastWriter = effectRuns
  /\ \A t \in pendingTimers : t.tok = effectRuns /\ t.tok \notin cancelled

\* the inputs changed once, the first run was cancelled, and the timer of
\* the second run has committed an estimate
C10_Witness ==
  /\ effectRuns = 2
  /\ 1 \in cancelled
  /\ estimatedSize.kind = "bytes"
  /\ ~isEstimating
  /\ lastWriter = 2

(***************************************************************************)
(* Properties of the asset lifecycle                                        *)
(***************************************************************************)
\* C11: a handle is released only once it has left the active asset set and
\* nothing can read it any more: no handle of the active set, which is what
\* the rendered Stage draws and so what an export or a size estimate reads,
\* has been released.
C11_NoReleasedHandleInUse ==
  \A j \in 1..Len(assets) : released[assets[j]] = 0

\* C12: every decoded handle is released exactly once: none is released
\* twice, and every decoded handle that is not in the active asset set has
\* been released.
C12_ReleasedExactlyOnce ==
  \A h \in 1..decodedCount :
    /\ released[h] <= 1
    /\ h \notin HandlesOf(assets) => released[h] = 1

\* the files of a selection that readFileAsAsset can decode
Decodable(selected) == {j \in 1..Len(selected) : selected[j]}

\* C13: when a processFiles call has ended after a decode error, every file
\* of its selection that can be decoded was published to the active asset
\* set (`loaded` is what setAssets was given).
C13_SiblingsSurviveDecodeError ==
  \A u \in UploadIds :
    (uploads[u].pc = "done" /\ uploads[u].failed) =>
      Len(uploads[u].loaded) = Cardinality(Decodable(uploads[u].selected))

(***************************************************************************)
(* Properties of the layout packers                                         *)
(***************************************************************************)
MasonryDone == layoutResult # <<>> /\ layoutArgs.mode = "masonry"
JustifiedDone == layoutResult # <<>> /\ layoutArgs.mode = "justified"

\* C14: computeMasonryLayout returns one item per photo, every item has
\* width > 0 and height > 0, and the result height is >= 0.
C14_MasonryItemsPositive ==
  MasonryDone =>
    LET result == layoutResult[1]
    IN /\ Len(result.items) = Len(layoutArgs.photos)
       /\ \A i \in 1..Len(result.items) :
            /\ RLt(RInt(0), result.items[i].width)
            /\ RLt(RInt(0), result.items[i].height)
       /\ RLe(RInt(0), result.height)

\* the running height of column c when item i is about to be placed,
\* recomputed from the items placed before it
RECURSIVE HeightBefore(_, _, _, _)
HeightBefore(items, gutter, c, i) ==
  IF i <= 1 THEN RInt(0)
  ELSE LET before == HeightBefore(items, gutter, c, i - 1)
       IN IF items[i - 1].column = c
            THEN RAdd(before, RAdd(items[i - 1].height, gutter))
            ELSE before

\* C15: computeMasonryLayout places the photos in input order, each at the
\* top of a column whose running height is minimal at that moment, and among
\* the columns tied at the minimum in the lowest-indexed one.
C15_MasonryLowestMinimalColumn ==
  MasonryDone =>
    LET items == layoutResult[1].items
        columns == Max(1, Floor(layoutArgs.options.columns))
        gutter == RInt(Max(0, layoutArgs.options.gutter))
    IN \A i \in 1..Len(items) :
         LET own == HeightBefore(items, gutter, items[i].column, i)
         IN /\ items[i].id = i
            /\ items[i].column \in 1..columns
            /\ items[i].y = own
            /\ items[i].x = RMul(RInt(items[i].column - 1),
                                 RAdd(items[i].width, gutter))
            /\ \A c \in 1..columns :
                 /\ RLe(own, HeightBefore(items, gutter, c, i))
                 /\ c < items[i].column =>
                      RLt(own, HeightBefore(items, gutter, c, i))

\* two columns and three square photos: the first goes to column 1 (both
\* columns at 0), the second to column 2, the third to column 1 again (both
\* columns at the same height)
C15_Witness ==
  /\ MasonryDone
  /\ layoutArgs.options.columns = RInt(2)
  /\ layoutArgs.photos = [i \in 1..3 |-> [width |-> 1, height |-> 1]]
  /\ layoutResult[1].items[1].column = 1
  /\ layoutResult[1].items[2].column = 2
  /\ layoutResult[1].items[3].column = 1
  /\ HeightBefore(layoutResult[1].items, RInt(layoutArgs.options.gutter), 1, 3)
       = HeightBefore(layoutResult[1].items, RInt(layoutArgs.options.gutter), 2, 3)

\* C16: every item of computeMasonryLayout keeps its photo's aspect ratio:
\* item.height * photo.width = photo.height * item.width.
C16_MasonryAspectPreserved ==
  MasonryDone =>
    \A i \in 1..Len(layoutResult[1].items) :
      LET item == layoutResult[1].items[i]
          photo == layoutArgs.photos[item.id]
      IN RMul(item.height, RInt(photo.width))
           = RMul(RInt(photo.height), item.width)

\* a portrait photo (1 x 2) and a panorama (4 x 1) in columns of positive
\* width: the first item is twice as high as wide, the second four times as
\* wide as high
C16_Witness ==
  /\ MasonryDone
  /\ Len(layoutArgs.photos) >= 2
  /\ layoutArgs.photos[1] = [width |-> 1, height |-> 2]
  /\ layoutArgs.photos[2] = [width |-> 4, height |-> 1]
  /\ RLt(RInt(0), layoutResult[1].items[1].width)
  /\ layoutResult[1].items[1].height = RMul(RInt(2), layoutResult[1].items[1].width)
  /\ layoutResult[1].items[2].width = RMul(RInt(4), layoutResult[1].items[2].height)

\* C17: in computeJustifiedLayout every row but the last has a height within
\* [0.75 * rowHeight, 1.25 * rowHeight], and the last row has a height
\* <= rowHeight (the last row is the one flushed with isLastRow).
C17_JustifiedRowHeights ==
  JustifiedDone =>
    LET items == layoutResult[1].items
        target == RInt(layoutArgs.options.rowHeight)
    IN \A i \in 1..Len(items) :
         LET last == items[i].row = items[Len(items)].row
         IN /\ items[i].final = last
            /\ IF last
                 THEN RLe(items[i].height, target)
                 ELSE /\ RLe(RMul(target, Rat(3, 4)), items[i].height)
                      /\ RLe(items[i].height, RMul(target, Rat(5, 4)))

\* a first row that a panorama overfills is raised to 0.75 * rowHeight, a
\* second row is fitted to the width at a height strictly between the clamp
\* limits, and the last row is lower than rowHeight
C17_Witness ==
  /\ JustifiedDone
  /\ \E i, j, k \in 1..Len(layoutResult[1].items) :
       LET items == layoutResult[1].items
           target == RInt(layoutArgs.options.rowHeight)
       IN /\ ~items[i].final
          /\ items[i].height = RMul(target, Rat(3, 4))
          /\ ~items[j].final
          /\ RLt(RMul(target, Rat(3, 4)), items[j].height)
          /\ RLt(items[j].height, target)
          /\ items[k].final
          /\ RLt(items[k].height, target)
          /\ RLt(RInt(0), items[k].height)

\* C19: every item of computeJustifiedLayout has width > 0 and height > 0
\* (photos with positive dimensions, rowHeight > 0, gutter >= 0, width > 0).
C19_JustifiedItemsPositive ==
  JustifiedDone =>
    \A i \in 1..Len(layoutResult[1].items) :
      /\ RLt(RInt(0), layoutResult[1].items[i].width)
      /\ RLt(RInt(0), layoutResult[1].items[i].height)

\* the bottom edge of an item
BottomOf(item) == RAdd(item.y, item.height)

\* C18: for both packers every item lies between 0 and the result height
\* (y >= 0 and y + height <= result.height), and the result height is the
\* largest bottom edge of any item, 0 when there are no photos.
C18_HeightBoundsItems ==
  layoutResult # <<>> =>
    LET result == layoutResult[1]
        items == result.items
    IN /\ \A i \in 1..Len(items) :
            /\ RLe(RInt(0), items[i].y)
            /\ RLe(BottomOf(items[i]), result.height)
       /\ IF Len(items) = 0 THEN result.height = RInt(0)
          ELSE \E i \in 1..Len(items) : BottomOf(items[i]) = result.height

(***************************************************************************)
(* Properties of the size estimate                                          *)
(***************************************************************************)
\* C20: the estimate is "unknown" (null), with no estimation pending, while
\* no photos are loaded or the frame height is zero, and it is "unknown"
\* after a timer callback whose encode threw, whatever was shown before
\* (an unmounted App shows nothing).
C20_UnknownEstimate ==
  /\ (mounted /\ (Len(assets) = 0 \/ fullStageHeight <= 0)) =>
       /\ estimatedSize = NullSize
       /\ ~isEstimating
       /\ pendingTimers = {}
  /\ lastEncode.outcome = "threw" => estimatedSize = NullSize

\* a numeric estimate is shown (the latest encode succeeded), then
\* "Clear all" empties the photo set and the estimate is "unknown"
C20_Witness ==
  /\ Len(assets) = 0
  /\ resets = 1
  /\ lastEncode.outcome = "ok"
  /\ estimatedSize = NullSize
  /\ ~isEstimating

(***************************************************************************)
(* Propagation of export failures                                          *)
(***************************************************************************)
\* the step ends an export by reporting its failure to the user
SurfacesFailure == settled'.id # 0 /\ settled'.rec.result.kind = "error"

\* C21: an export reports a failure to the user at most once, and only when
\* every candidate of its ladder has been attempted and has failed; a step
\* that does not end an export with the ladder used up (in particular the
\* failure of a candidate that is not the last) leaves no failure message,
\* and an export that has ended never acts again.
C21_FailureSurfacedOnce ==
  [][/\ SurfacesFailure =>
          LET rec == settled'.rec
          IN /\ Active(settled'.id)
             /\ exports'[settled'.id].pc = "done"
             /\ KsOf(rec.log, "resize") = UpTo(Len(rec.scales))
             /\ KsOf(rec.log, "fail") = UpTo(Len(rec.scales))
             /\ KsOf(rec.log, "ok") = <<>>
             /\ snackbar' = "Export failed"
     /\ ~SurfacesFailure =>
          (snackbar' = "Export failed" => snackbar = "Export failed")
     /\ \A e \in ExportIds :
          exports[e].pc = "done" => exports'[e].pc = "done" /\ settled'.id # e
    ]_vars

\* an export with a ladder of three candidates has reported its failure
\* while another export, whose first candidate failed without any message,
\* is still retrying
C21_Witness ==
  /\ settled.id # 0
  /\ settled.rec.result.kind = "error"
  /\ Len(settled.rec.scales) = 3
  /\ snackbar = "Export failed"
  /\ \E e \in ExportIds :
       /\ Active(e)
       /\ KsOf(exports[e].log, "fail") # <<>>

C23_AttemptsDecreasing ==
  \A e \in ExportIds :
    Active(e) =>
      \A k \in 2..exports[e].idx :
        exports[e].scales[k] < exports[e].scales[k - 1]

(***************************************************************************)
(* Rows of the justified layout                                            *)
(***************************************************************************)
\* the numbers of the rows of a justified result and the items of one row
RowsOf(items) == {items[j].row : j \in 1..Len(items)}

RowItems(items, r) == SelectSeq(items, LAMBDA item : item.row = r)

\* the sum of the widths of the items j..Len(row) of a row
RECURSIVE SumWidths(_, _)
SumWidths(row, j) ==
  IF j > Len(row) THEN RInt(0) ELSE RAdd(row[j].width, SumWidths(row, j + 1))

\* the width a row takes: its items and the gutters between them
RowSpan(row, gutter) == RAdd(SumWidths(row, 1), RMul(gutter, RInt(Len(row) - 1)))

CompletesUpload(u) ==
  /\ uploads[u].pc \notin {"idle", "done"}
  /\ uploads'[u].pc = "done"
  /\ ~uploads'[u].failed

\* C25: when a processFiles invocation of the mounted App returns without
\* error, the active set is exactly what it decoded: one asset for each of
\* the first max incoming files, in input order, none of them from an
\* earlier set; the step of a resetState leaves the active set empty.
C25_SetReplacedWholesale ==
  [][/\ \A u \in UploadIds :
          (CompletesUpload(u) /\ mounted') =>
            LET rec == uploads'[u]
            IN /\ assets' = rec.loaded
               /\ Len(rec.loaded) = Min(Len(rec.incoming), maxImagesOf(platform))
               /\ \A j \in 1..Len(rec.loaded) - 1 : rec.loaded[j] < rec.loaded[j + 1]
               /\ \A j \in 1..Len(rec.loaded) : released'[rec.loaded[j]] = 0
     /\ resets' # resets => assets' = <<>>
    ]_vars

(***************************************************************************)
(* The estimate and the quality preset                                     *)
(***************************************************************************)
\* C26: with the photo set, the layout and the preview scale unchanged, an
\* estimate taken at a quality that is not lower than that of the estimate
\* it replaces is not smaller than it (the encoder's output does not shrink
\* when the quality is raised).
C26_EstimateMonotoneInQuality ==
  [][(/\ estimatedSize.kind = "bytes"
      /\ estimatedSize'.kind = "bytes"
      /\ estimatedSize.quality <= estimatedSize'.quality)
       => estimatedSize.bytes <= estimatedSize'.bytes]_vars

(***************************************************************************)
(* Placement in the masonry layout                                         *)
(***************************************************************************)
\* the ground an item covers, whatever the signs of its width and height
XLo(item) == RMin(item.x, RAdd(item.x, item.width))
XHi(item) == RMax(item.x, RAdd(item.x, item.width))
YLo(item) == RMin(item.y, BottomOf(item))
YHi(item) == RMax(item.y, BottomOf(item))

Overlap(a, b) ==
  /\ RLt(XLo(a), XHi(b))
  /\ RLt(XLo(b), XHi(a))
  /\ RLt(YLo(a), YHi(b))
  /\ RLt(YLo(b), YHi(a))

\* C27: every item of computeMasonryLayout is at x = column * (columnWidth +
\* gutter) (columns counted from 0) and at y = the sum of height + gutter
\* of the earlier items of its column; an item and the next one of the same
\* column are exactly gutter apart, and no two items overlap.
C27_MasonryStacked ==
  MasonryDone =>
    LET items == layoutResult[1].items
        gutter == RInt(Max(0, layoutArgs.options.gutter))
        columns == Max(1, Floor(layoutArgs.options.columns))
        columnWidth == Rat(layoutArgs.options.width - gutter[1] * (columns - 1),
                           columns)
    IN /\ \A i \in 1..Len(items) :
            /\ items[i].width = columnWidth
            /\ items[i].x = RMul(RInt(items[i].column - 1),
                                 RAdd(columnWidth, gutter))
            /\ items[i].y = HeightBefore(items, gutter, items[i].column, i)
       /\ \A i, j \in 1..Len(items) :
            i < j =>
              /\ (/\ items[i].column = items[j].column
                  /\ \A m \in i + 1..j - 1 : items[m].column # items[i].column)
                   => items[j].y = RAdd(BottomOf(items[i]), gutter)
              /\ ~Overlap(items[i], items[j])

(***************************************************************************)
(* Clamping of the layout parameters                                       *)
(***************************************************************************)
\* C28: computeMasonryLayout gives, for any columns and gutter, the result
\* it gives for columns = max(1, floor(columns)) and gutter = max(0, gutter),
\* and computeJustifiedLayout gives for a negative gutter the result it
\* gives for gutter = 0; a result is returned for every input.
C28_ParametersClamped ==
  /\ MasonryDone =>
       LET options == layoutArgs.options
       IN layoutResult[1] =
            computeMasonryLayout(layoutArgs.photos,
              [columns |-> RInt(IF Floor(options.columns) >= 1
                                  THEN Floor(options.columns) ELSE 1),
               gutter |-> IF options.gutter >= 0 THEN options.gutter ELSE 0,
               width |-> options.width])
  /\ JustifiedDone =>
       LET options == layoutArgs.options
       IN layoutResult[1] =
            computeJustifiedLayout(layoutArgs.photos,
              [rowHeight |-> options.rowHeight,
               gutter |-> IF options.gutter >= 0 THEN options.gutter ELSE 0,
               width |-> options.width])

\* three photos packed with columns = 5/2 and gutter = -8: two columns of
\* half the width each, with nothing between them
C28_Witness ==
  /\ MasonryDone
  /\ layoutArgs.options.columns = Rat(5, 2)
  /\ layoutArgs.options.gutter < 0
  /\ Len(layoutResult[1].items) = 3
  /\ layoutResult[1].items[1].width = Rat(layoutArgs.options.width, 2)
  /\ layoutResult[1].items[2].x = Rat(layoutArgs.options.width, 2)
  /\ layoutResult[1].items[3].column \in {1, 2}

(***************************************************************************)
(* Closing of the rows of the justified layout                             *)
(***************************************************************************)
\* the sum of the aspect ratios of the photos of the first n items of a row
RECURSIVE AspectSum(_, _, _)
AspectSum(photos, row, n) ==
  IF n <= 0 THEN RInt(0)
  ELSE RAdd(AspectSum(photos, row, n - 1), AspectOf(photos[row[n].id]))

\* options.rowHeight * rowAspectSum + gutter * (count - 1) for the first n
\* photos of a row
VirtualWidth(photos, row, n, rowHeight, gutter) ==
  RAdd(RMul(RInt(rowHeight), AspectSum(photos, row, n)),
       RMul(gutter, RInt(n - 1)))

\* C29: computeJustifiedLayout places every photo, in input order, in rows
\* of consecutive photos; no row is empty; the row that holds the last
\* photo is the one flushed as last row; every other row has a virtual
\* width rowHeight * aspectSum + gutter * (count - 1) >= width, and without
\* its last photo a virtual width < width.
C29_RowsClosedWhenFull ==
  JustifiedDone =>
    LET items == layoutResult[1].items
        photos == layoutArgs.photos
        options == layoutArgs.options
        gutter == RInt(Max(0, options.gutter))
        width == RInt(options.width)
    IN /\ Len(items) = Len(photos)
       /\ \A i \in 1..Len(items) : items[i].id = i
       /\ \A i \in 1..Len(items) - 1 :
            items[i + 1].row \in {items[i].row, items[i].row + 1}
       /\ Len(items) > 0 => items[1].row = 1
       /\ \A r \in RowsOf(items) :
            LET row == RowItems(items, r)
                n == Len(row)
                holdsLast == row[n].id = Len(photos)
            IN /\ n >= 1
               /\ row[1].final = holdsLast
               /\ ~holdsLast =>
                    /\ RLe(width, VirtualWidth(photos, row, n, options.rowHeight,
                                               gutter))
                    /\ RLt(VirtualWidth(photos, row, n - 1, options.rowHeight,
                                        gutter), width)

\* three rows; the first is closed by a photo that brings its virtual
\* width to exactly the width, the second by one that brings it beyond
C29_Witness ==
  /\ JustifiedDone
  /\ Len(layoutResult[1].items) = 3
  /\ LET items == layoutResult[1].items
         options == layoutArgs.options
         gutter == RInt(Max(0, options.gutter))
     IN /\ items[1].row = 1
        /\ items[2].row = 2
        /\ items[3].row = 3
        /\ options.gutter > 0
        /\ VirtualWidth(layoutArgs.photos, RowItems(items, 1), 1,
                        options.rowHeight, gutter) = RInt(options.width)
        /\ RLt(RInt(options.width),
               VirtualWidth(layoutArgs.photos, RowItems(items, 2), 1,
                            options.rowHeight, gutter))

(***************************************************************************)
(* Items of a row of the justified layout                                  *)
(***************************************************************************)
\* C30: the items of one row of computeJustifiedLayout have the same y and
\* the same height, each is as wide as that height times its photo's
\* width / height, the first is at x = 0 and each following one at the x of
\* the one before it plus that one's width plus the gutter.
C30_RowItemsAligned ==
  JustifiedDone =>
    LET items == layoutResult[1].items
        photos == layoutArgs.photos
        gutter == RInt(Max(0, layoutArgs.options.gutter))
    IN \A r \in RowsOf(items) :
         LET row == RowItems(items, r)
         IN /\ row[1].x = RInt(0)
            /\ \A j \in 1..Len(row) :
                 /\ row[j].y = row[1].y
                 /\ row[j].height = row[1].height
                 /\ row[j].width =
                      RMul(row[1].height,
                           Rat(photos[row[j].id].width, photos[row[j].id].height))
                 /\ j > 1 =>
                      row[j].x = RAdd(RAdd(row[j - 1].x, row[j - 1].width), gutter)

\* a row of a portrait and a panorama with a gutter between them, below
\* another row
C30_Witness ==
  /\ JustifiedDone
  /\ layoutArgs.options.gutter > 0
  /\ \E r \in RowsOf(layoutResult[1].items) :
       LET row == RowItems(layoutResult[1].items, r)
       IN /\ Len(row) = 2
          /\ RLt(RInt(0), row[1].y)
          /\ RLt(RInt(0), row[1].height)
          /\ layoutArgs.photos[row[1].id] = [width |-> 1, height |-> 2]
          /\ layoutArgs.photos[row[2].id] = [width |-> 4, height |-> 1]
          /\ RLt(RAdd(row[1].x, row[1].width), row[2].x)
          /\ row[2].width = RMul(row[1].width, RInt(8))

LadderBounded(rec) ==
  /\ Len(rec.scales) \in 1..4
  /\ rec.scales[Len(rec.scales)] = 50

\* an export that has run to its end made between one and four attempts
\* and either returned the blob of its last attempt or threw the cause of
\* its last attempt, never the fallback error
EndedWithinLadder(rec) ==
  LET n == Len(KsOf(rec.log, "resize"))
  IN /\ n \in 1..Len(rec.scales)
     /\ KsOf(rec.log, "resize") = UpTo(n)
     /\ \/ /\ rec.result.kind = "blob"
           /\ rec.result.scale = rec.scales[n]
        \/ /\ rec.result.kind = "error"
           /\ rec.result.cause = Thrown(n)
           /\ rec.result.cause # GenericError

\* C32: the ladder of every export has between one and four candidates,
\* 0.25 among them; every export that was started comes to its end, after
\* at least one and at most four attempts, with a blob or with the cause of
\* its last attempt; 'Export failed at all resolutions' is never thrown.
C32_AttemptExportTerminates ==
  /\ [](\A rec \in Records : LadderBounded(rec))
  /\ [](settled.id # 0 => EndedWithinLadder(settled.rec))
  /\ \A e \in ExportIds : Active(e) ~> (settled.id = e)

\* a ladder of three candidates is used up: the export ends by throwing the
\* cause of its third attempt
C32_Witness ==
  /\ settled.id # 0
  /\ Len(settled.rec.scales) = 3
  /\ settled.rec.result = [kind |-> "error", cause |-> Thrown(3)]

(***************************************************************************)
(* One estimator timer                                                     *)
(***************************************************************************)
\* C33: at most one timer of the estimator effect is pending at any time,
\* a run of the effect leaves no timer pending but the one it has set, and
\* the callback that encodes is that of the latest run and leaves no timer
\* behind, so that a burst of input changes is followed by one encode at
\* most.
C33_OneEstimatorTimer ==
  /\ [](Cardinality(pendingTimers) <= 1)
  /\ [][effectRuns' # effectRuns =>
         pendingTimers' \subseteq {Timer(effectRuns', compressionPreset')}]_vars
  /\ [][TimerCallbackEncodes =>
         /\ pendingTimers = {Timer(effectRuns, compressionPreset)}
         /\ pendingTimers' = {}]_vars

\* the inputs changed twice before any timer has fired: one timer, that of
\* the third run, is pending and nothing has been encoded
C33_Witness ==
  /\ effectRuns = 3
  /\ lastEncode = NoEncode
  /\ pendingTimers = {Timer(3, compressionPreset)}
  /\ cancelled = {1, 2}

(***************************************************************************)
(* The estimator settles                                                   *)
(***************************************************************************)
\* the estimate shown was computed by the latest run of the effect from the
\* inputs of the latest render: the preview-sized stage at the quality of
\* the preset now chosen
FromLatestInputs ==
  /\ estimatedSize.kind = "bytes"
  /\ lastWriter = effectRuns
  /\ estimatedSize.quality = compressionQuality(compressionPreset)
  /\ estimatedSize.of = PreviewStage(fullStageHeight)

EstimatorSettled ==
  /\ ~isEstimating
  /\ estimatedSize = NullSize \/ FromLatestInputs

\* C34: once the inputs stop changing the estimator settles: isEstimating
\* is false for good and the estimate is null or the one computed from the
\* latest inputs; isEstimating does not stay true for ever.
C34_EstimatorSettles ==
  /\ <>[]EstimatorSettled
  /\ isEstimating ~> ~isEstimating

(***************************************************************************)
(* The processing flag                                                     *)
(***************************************************************************)
\* processFiles u is between its setIsProcessing(true) and its finally
Uploading(u) == uploads[u].pc \in {"gc", "decode", "yield"}

\* an upload or an export is in progress
OperationInProgress ==
  \/ \E e \in ExportIds : Active(e)
  \/ \E u \in UploadIds : Uploading(u)

\* C35: isProcessing is true in every state in which an upload or an export
\* is in progress and false in every state in which none is; the end of one
\* operation does not clear the flag while another one is running.
C35_FlagTracksOperations ==
  isProcessing <=> OperationInProgress

(***************************************************************************)
(* Debounced sliders                                                       *)
(***************************************************************************)
\* C36: a slider change made while an update of that slider is pending
\* cancels the pending update, so that at most one update per slider is
\* pending; a debounced value only ever changes to the value its slider
\* shows, never to one the slider has left since; and the debounced values
\* eventually equal the sliders' values.
C36_SlidersDebounced ==
  /\ [](\A name \in SliderNames :
          Len(SelectSeq(sliderTimers, LAMBDA t : t.slider = name)) <= 1)
  /\ [][\A name \in SliderNames :
          debouncedValue'[name] # debouncedValue[name] =>
            debouncedValue'[name] = sliderValue'[name]]_vars
  /\ <>[](debouncedValue = sliderValue)

(***************************************************************************)
(* Download without photos                                                 *)
(***************************************************************************)
\* C37: a handleDownload call made while there is no photo (or no stage)
\* starts no export: the stage, the photo set, the exports and
\* isProcessing are as before the call, and only the notification is set.
C37_DownloadRefusedWithoutPhotos ==
  [][(Len(assets) = 0 \/ stage = NoRaster) /\ settled' = Refused =>
       /\ UNCHANGED <<stage, assets, released, exports, started, isProcessing>>
       /\ UNCHANGED <<uploads, estimatorVars, layoutVars>>
       /\ snackbar' = "Add photos before exporting"]_vars

\* Download was called after the photos had been cleared
C37_Witness ==
  /\ settled = Refused
  /\ snackbar = "Add photos before exporting"
  /\ Len(assets) = 0
  /\ resets > 0

(***************************************************************************)
(* One item per photo                                                      *)
(***************************************************************************)
\* C38: computeMasonryLayout and computeJustifiedLayout return exactly one
\* item per photo, carrying that photo's id, in the order of the input: no
\* photo is dropped and none appears twice.  (A photo's id is its position
\* in the input list.)
C38_OneItemPerPhotoInOrder ==
  layoutResult # <<>> =>
    LET items == layoutResult[1].items
    IN /\ Len(items) = Len(layoutArgs.photos)
       /\ [i \in 1..Len(items) |-> items[i].id] = UpTo(Len(layoutArgs.photos))

\* three photos laid out in justified rows of which the last one is left
\* open by the third photo
C38_Witness ==
  /\ JustifiedDone
  /\ Len(layoutArgs.photos) = 3
  /\ layoutResult[1].items[3].id = 3
  /\ layoutResult[1].items[3].final
  /\ LET row == RowItems(layoutResult[1].items, layoutResult[1].items[3].row)
     IN ~RowIsFull(VirtualWidth(layoutArgs.photos, row, Len(row),
                                layoutArgs.options.rowHeight,
                                RInt(ClampGutter(layoutArgs.options.gutter))),
                   layoutArgs.options.width)

(***************************************************************************)
(* Balanced columns                                                        *)
(***************************************************************************)
\* the largest height + gutter of the first n items
RECURSIVE LargestStep(_, _, _)
LargestStep(items, gutter, n) ==
  IF n = 1 THEN RAdd(items[1].height, gutter)
  ELSE RMax(LargestStep(items, gutter, n - 1), RAdd(items[n].height, gutter))

\* the running heights of the columns after the first n items were placed
HeightsAfter(items, gutter, columns, n) ==
  [c \in 1..columns |-> HeightBefore(items, gutter, c, n + 1)]

\* C39: after every placement of computeMasonryLayout the highest and the
\* lowest running column height differ by no more than the largest
\* height + gutter of the items placed so far.
C39_MasonryBalanced ==
  MasonryDone =>
    LET items == layoutResult[1].items
        gutter == RInt(Max(0, layoutArgs.options.gutter))
        columns == Max(1, Floor(layoutArgs.options.columns))
    IN \A n \in 1..Len(items) :
         LET hs == HeightsAfter(items, gutter, columns, n)
         IN RLe(RSub(MaxOf(hs, columns), MinOf(hs, columns)),
                LargestStep(items, gutter, n))

====
